---------------------------- MODULE Spec2Model ----------------------------
(***************************************************************************)
(* Model of MediaMetadataExtractor.                                        *)
(*                                                                         *)
(*   MediaMetadataParser.py : discovery (rglob + filter), per-file         *)
(*       extraction (get_media_metadata), the command-line batch           *)
(*       (process_directory) and the GUI batch (start_processing,          *)
(*       process_folder on a worker thread, cancel_processing).            *)
(*   convert.py : group_by_folder, create_sheet, convert_json_to_excel.    *)
(*                                                                         *)
(* Strings the code inspects character by character (file names, folder    *)
(* paths, sheet titles) are sequences of one-character strings.            *)
(***************************************************************************)
EXTENDS Integers, Sequences, FiniteSets, TLC

(***************************************************************************)
(* Bounds of the model.                                                    *)
(***************************************************************************)
\* entries (files and directories) below the root directory
MaxEntries == 2
\* worker threads started by start_processing during one behaviour
MaxRuns == 2
\* records in the JSON list handed to convert.py
MaxRecords == 3

(***************************************************************************)
(* Characters and names.                                                   *)
(***************************************************************************)
\* str.lower() on the characters that occur in the model's file names
Lower(c) ==
    CASE c = "M" -> "m"
      [] c = "P" -> "p"
      [] c = "K" -> "k"
      [] c = "V" -> "v"
      [] OTHER -> c

LowerStr(s) == [i \in 1..Len(s) |-> Lower(s[i])]

\* str.rfind('.') as a 1-based position, 0 when there is no dot
RFindDot(s) ==
    LET dots == {i \in 1..Len(s) : s[i] = "."}
    IN  IF dots = {} THEN 0 ELSE CHOOSE i \in dots : \A j \in dots : j <= i

\* pathlib PurePath.suffix: the last dot must be neither the first nor the
\* last character of the name
Suffix(name) ==
    LET i == RFindDot(name)
    IN  IF 1 < i /\ i < Len(name) THEN SubSeq(name, i, Len(name)) ELSE <<>>

\* name.startswith('.')
StartsWithDot(name) == Len(name) > 0 /\ name[1] = "."

MEDIA_EXTENSIONS ==
    { <<".", "m", "p", "3">>, <<".", "m", "p", "4">>, <<".", "a", "v", "i">>,
      <<".", "m", "k", "v">>, <<".", "m", "o", "v">>, <<".", "w", "a", "v">>,
      <<".", "f", "l", "a", "c">>, <<".", "m", "4", "a">>, <<".", "a", "a", "c">> }

\* the filter of the list comprehension in process_directory / process_folder
IsMediaName(name) ==
    LowerStr(Suffix(name)) \in MEDIA_EXTENSIONS /\ ~StartsWithDot(name)

(***************************************************************************)
(* The file system below the root: a set of nodes [path, kind], a path     *)
(* being the sequence of names from the root.  Names any entry (file or    *)
(* directory) may carry, in the order os.scandir lists them.               *)
(***************************************************************************)
NameList ==
    << <<"a", ".", "M", "P", "3">>,          \* a.MP3   upper-case extension
       <<".", "h", ".", "m", "p", "4">>,     \* .h.mp4  hidden
       <<"c", ".", "t", "x", "t">>,          \* c.txt   extension not allowed
       <<"d", ".", "m", "k", "v">> >>        \* d.mkv

Names == {NameList[i] : i \in 1..Len(NameList)}

Kinds == {"file", "dir"}

Node(p, k) == [path |-> p, kind |-> k]

NodeUniverse ==
    {Node(<<n>>, k) : n \in Names, k \in Kinds}
        \cup {Node(<<d, n>>, k) : d \in Names, n \in Names, k \in Kinds}

HasPath(t, p) == \E k \in Kinds : Node(p, k) \in t

IsDir(t, p) == Node(p, "dir") \in t

\* a directory tree: one node per path, every node's parent a directory
WellFormed(t) ==
    /\ \A x \in t : \A y \in t : x.path = y.path => x = y
    /\ \A x \in t : Len(x.path) > 1 =>
            IsDir(t, SubSeq(x.path, 1, Len(x.path) - 1))

RECURSIVE SubsetsUpTo(_, _)
SubsetsUpTo(S, n) ==
    IF n = 0 THEN {{}}
    ELSE LET r == SubsetsUpTo(S, n - 1)
         IN  r \cup {t \cup {x} : t \in r, x \in S}

Trees == {t \in SubsetsUpTo(NodeUniverse, MaxEntries) : WellFormed(t)}

(***************************************************************************)
(* Path.rglob('*'): every directory in pre-order, and for each the         *)
(* entries it lists.                                                       *)
(***************************************************************************)
RECURSIVE ListFrom(_, _, _)
\* the entries of directory d, from position i of the scandir order on
ListFrom(t, d, i) ==
    IF i > Len(NameList) THEN <<>>
    ELSE (IF HasPath(t, Append(d, NameList[i]))
          THEN <<Append(d, NameList[i])>> ELSE <<>>)
         \o ListFrom(t, d, i + 1)

Listing(t, d) == ListFrom(t, d, 1)

RECURSIVE RGlobDirs(_, _), RGlobSubdirs(_, _, _)
\* the listings of directory d and of the directories below it
RGlobDirs(t, d) == Listing(t, d) \o RGlobSubdirs(t, Listing(t, d), 1)

RGlobSubdirs(t, entries, i) ==
    IF i > Len(entries) THEN <<>>
    ELSE (IF IsDir(t, entries[i]) THEN RGlobDirs(t, entries[i]) ELSE <<>>)
         \o RGlobSubdirs(t, entries, i + 1)

\* rglob on a root that is a regular file, or is missing, yields nothing
RGlob(rk, t) == IF rk = "dir" THEN RGlobDirs(t, <<>>) ELSE <<>>

Last(s) == s[Len(s)]

SeqSet(s) == {s[i] : i \in 1..Len(s)}

IsMediaPath(p) == IsMediaName(Last(p))

\* media_files = [f for f in path.rglob('*') if <filter>]
DiscoverMediaFiles(rk, t) == SelectSeq(RGlob(rk, t), IsMediaPath)


(***************************************************************************)
(* get_media_metadata.                                                     *)
(***************************************************************************)
FileStatFields ==
    {"filename", "path", "size_B", "size_MB", "modified_unix", "modified_date"}

\* the fields VideoFileClip always supplies, and those read behind hasattr
AlwaysFields == {"duration_seconds", "duration", "resolution", "color_space"}

HasattrFields ==
    {"fps", "codec", "pixel_format", "depth", "rotation", "bitrate", "extra_infos"}

MediaFields == AlwaysFields \cup HasattrFields

\* dict.update
DictUpdate(a, b) ==
    [k \in DOMAIN a \cup DOMAIN b |-> IF k \in DOMAIN b THEN b[k] ELSE a[k]]

\* the dictionary built before the try block; what stat() reports is kept
\* symbolic, tagged with the file it was read from
FileStat(f) ==
    [ filename      |-> Last(f),
      path          |-> f,
      size_B        |-> <<"st_size", f>>,
      size_MB       |-> <<"st_size / 2^20, 2 decimals", f>>,
      modified_unix |-> <<"st_mtime", f>>,
      modified_date |-> <<"st_mtime as Y-m-d H:M:S", f>> ]

\* the argument of metadata.update: has is the set of hasattr-guarded
\* attributes the clip and its reader expose
ClipFields(has) ==
    [k \in MediaFields |-> IF k \in AlwaysFields \cup has THEN "value" ELSE "N/A"]

\* what one call of get_media_metadata can meet:
\*   ok          the clip opens and every field expression evaluates
\*   stat_fail   file_path.stat() raises, outside the try block
\*   open_fail   VideoFileClip(...) raises
\*   field_fail  a field expression of the dictionary passed to
\*               metadata.update raises (the call is then never made)
Outcomes == {"ok", "stat_fail", "open_fail", "field_fail"}

HasChoices == {HasattrFields, {}}

\* str(e) of the exception caught at line 83
ErrorText == "str(e)"

\* the key the except clause stores str(e) under
ErrorKey == "error"

\* get_media_metadata had it stored each field as soon as it is computed:
\* a failing field expression then leaves the earlier fields in the record
GetMediaMetadataFieldByField(f, outcome, has) ==
    CASE outcome = "ok" ->
            DictUpdate(FileStat(f), ClipFields(has))
      [] outcome = "open_fail" ->
            DictUpdate(FileStat(f), [k \in {ErrorKey} |-> ErrorText])
      [] outcome = "field_fail" ->
            DictUpdate(DictUpdate(FileStat(f),
                                  [k \in AlwaysFields |-> "value"]),
                       [k \in {ErrorKey} |-> ErrorText])

\* the dictionary get_media_metadata returns (outcome # "stat_fail")
GetMediaMetadata(f, outcome, has) ==
    CASE outcome = "ok" ->
            DictUpdate(FileStat(f), ClipFields(has))
      [] outcome \in {"open_fail", "field_fail"} ->
            DictUpdate(FileStat(f), [k \in {ErrorKey} |-> ErrorText])

(***************************************************************************)
(* State.                                                                  *)
(***************************************************************************)
VARIABLES
    entry,             \* the program run: "cli" (process_directory), "gui", "convert"
    rootKind,          \* the chosen folder: "unset", "missing", "file" or "dir"
    tree,              \* the entries below the root directory
    extract_attempted, \* get_media_metadata has been called
    save_called,       \* save_to_excel has been called
    report_written,    \* save_to_excel has written the workbook
    cli,               \* process_directory: [pc, media_files, metadata_list, raised]
    ui_pc,             \* the UI thread: "idle", or "spawn" inside start_processing
    cancel_requested,
    browse_button, start_button, cancel_button,
    processing_thread, \* 0 for None, else the id of a worker thread
    threads,           \* worker thread id -> the locals of its process_folder call
    nthreads,          \* worker threads created so far
    ui_dialog,         \* the error dialog start_processing last showed
    conv               \* convert.py: [pc, data, folders, grouped, sheets, saved]

fsVars == <<entry, rootKind, tree>>
sinkVars == <<extract_attempted, save_called, report_written>>
guiVars == <<ui_pc, cancel_requested, browse_button, start_button, cancel_button,
             processing_thread, threads, nthreads, ui_dialog>>
vars == <<fsVars, sinkVars, cli, guiVars, conv>>

ThreadIds == 1..MaxRuns

\* a thread object that has not been created, or whose run has ended
NoLocals(pc) ==
    [pc |-> pc, media_files |-> <<>>, metadata_list |-> <<>>, i |-> 0,
     broke |-> FALSE, notified |-> "none"]

\* threading.Thread.is_alive
IsAlive(t) == threads[t].pc \notin {"unborn", "dead"}

ConvIdle ==
    [pc |-> "off", data |-> <<>>, folders |-> <<>>, grouped |-> <<>>,
     sheets |-> <<>>, saved |-> "no"]

InitParser ==
    /\ extract_attempted = FALSE
    /\ save_called = FALSE
    /\ report_written = FALSE
    /\ cli = [pc |-> "start", media_files |-> <<>>, metadata_list |-> <<>>,
              raised |-> "none"]
    /\ ui_pc = "idle"
    /\ cancel_requested = FALSE
    /\ browse_button = "normal"
    /\ start_button = "normal"
    /\ cancel_button = "disabled"
    /\ processing_thread = 0
    /\ threads = [t \in ThreadIds |-> NoLocals("unborn")]
    /\ nthreads = 0
    /\ ui_dialog = "none"

Init ==
    /\ entry \in {"cli", "gui"}
    /\ rootKind \in (IF entry = "gui" THEN {"unset", "missing", "file", "dir"}
                     ELSE {"missing", "file", "dir"})
    /\ tree \in (IF rootKind = "dir" THEN Trees ELSE {{}})
    /\ InitParser
    /\ conv = ConvIdle

(***************************************************************************)
(* process_directory (command-line batch).                                 *)
(***************************************************************************)
\* lines 151-162: the existence check, discovery and the empty check
CliStart ==
    /\ entry = "cli" /\ cli.pc = "start"
    /\ LET mf == DiscoverMediaFiles(rootKind, tree)
       IN  cli' = IF rootKind = "missing"
                    THEN [cli EXCEPT !.pc = "done", !.raised = "FileNotFoundError"]
                  ELSE IF mf = <<>>
                    THEN [cli EXCEPT !.pc = "done", !.raised = "ValueError"]
                  ELSE [cli EXCEPT !.pc = "loop", !.media_files = mf]
    /\ UNCHANGED <<fsVars, sinkVars, guiVars, conv>>

\* lines 165-168: one iteration of the loop
CliExtract ==
    /\ entry = "cli" /\ cli.pc = "loop"
    /\ Len(cli.metadata_list) < Len(cli.media_files)
    /\ extract_attempted' = TRUE
    /\ \E outcome \in Outcomes, has \in HasChoices :
         LET file == cli.media_files[Len(cli.metadata_list) + 1]
         IN  cli' = IF outcome = "stat_fail"
                      THEN [cli EXCEPT !.pc = "done", !.raised = "OSError"]
                    ELSE [cli EXCEPT !.metadata_list =
                              Append(@, GetMediaMetadata(file, outcome, has))]
    /\ UNCHANGED <<fsVars, save_called, report_written, guiVars, conv>>

\* lines 170-172: save_to_excel writes the workbook, or raises
CliSave ==
    /\ entry = "cli" /\ cli.pc = "loop"
    /\ Len(cli.metadata_list) = Len(cli.media_files)
    /\ save_called' = TRUE
    /\ \E ok \in BOOLEAN :
         IF ok
           THEN /\ report_written' = TRUE
                /\ cli' = [cli EXCEPT !.pc = "done"]
           ELSE /\ report_written' = report_written
                /\ cli' = [cli EXCEPT !.pc = "done", !.raised = "SaveError"]
    /\ UNCHANGED <<fsVars, extract_attempted, guiVars, conv>>

(***************************************************************************)
(* The GUI: start_processing and cancel_processing run on the UI thread,   *)
(* process_folder on the worker thread start_processing creates.  The      *)
(* log_message calls only write to the progress widget, which no operation *)
(* reads, and are left out; a message box is recorded with the thread that *)
(* showed it.                                                              *)
(***************************************************************************)
\* lines 358-369: a folder that is unset, missing or no directory is
\* answered with an error dialog and nothing else happens
StartProcessingRejected ==
    /\ entry = "gui" /\ ui_pc = "idle" /\ start_button = "normal"
    /\ rootKind # "dir"
    /\ ui_dialog' =
          CASE rootKind = "unset"   -> "Error: Please select a folder first"
            [] rootKind = "missing" -> "Error: The selected path does not exist"
            [] rootKind = "file"    -> "Error: The selected path is not a directory"
    /\ UNCHANGED <<fsVars, sinkVars, cli, ui_pc, cancel_requested, browse_button,
                   start_button, cancel_button, processing_thread, threads,
                   nthreads, conv>>

\* lines 371-374: the flag is reset and the buttons are switched
StartProcessing ==
    /\ entry = "gui" /\ ui_pc = "idle" /\ start_button = "normal"
    /\ rootKind = "dir"
    /\ nthreads < MaxRuns
    /\ cancel_requested' = FALSE
    /\ browse_button' = "disabled"
    /\ start_button' = "disabled"
    /\ cancel_button' = "normal"
    /\ ui_pc' = "spawn"
    /\ UNCHANGED <<fsVars, sinkVars, cli, processing_thread, threads, nthreads,
                   ui_dialog, conv>>

\* lines 376-381: the worker thread is created, stored and started
StartThread ==
    /\ entry = "gui" /\ ui_pc = "spawn"
    /\ nthreads' = nthreads + 1
    /\ processing_thread' = nthreads + 1
    /\ threads' = [threads EXCEPT ![nthreads + 1] = NoLocals("discover")]
    /\ ui_pc' = "idle"
    /\ UNCHANGED <<fsVars, sinkVars, cli, cancel_requested, browse_button,
                   start_button, cancel_button, ui_dialog, conv>>

\* lines 426-430, the command of the cancel button
CancelProcessing ==
    /\ entry = "gui" /\ ui_pc = "idle" /\ cancel_button = "normal"
    /\ IF processing_thread # 0 /\ IsAlive(processing_thread)
         THEN /\ cancel_requested' = TRUE
              /\ cancel_button' = "disabled"
         ELSE UNCHANGED <<cancel_requested, cancel_button>>
    /\ UNCHANGED <<fsVars, sinkVars, cli, ui_pc, browse_button, start_button,
                   processing_thread, threads, nthreads, ui_dialog, conv>>

\* what the worker's steps leave alone besides threads
workerFrame ==
    <<fsVars, cli, ui_pc, cancel_requested, nthreads, ui_dialog, conv>>

\* process_folder without lines 391-393: an empty list goes on to the loop
WorkerDiscoverNoEmptyCheck(w) ==
    /\ threads[w].pc = "discover"
    /\ \E stat_ok \in BOOLEAN :
         threads' = IF stat_ok
                      THEN [threads EXCEPT
                              ![w].pc = "loop",
                              ![w].media_files =
                                  DiscoverMediaFiles(rootKind, tree)]
                      ELSE [threads EXCEPT ![w].pc = "except"]
    /\ UNCHANGED <<workerFrame, sinkVars, browse_button, start_button,
                   cancel_button, processing_thread>>

\* lines 385-398: discovery, the empty check and the total size (one stat
\* per discovered entry, which may raise)
WorkerDiscover(w) ==
    /\ threads[w].pc = "discover"
    /\ LET mf == DiscoverMediaFiles(rootKind, tree)
       IN  IF mf = <<>>
             THEN threads' = [threads EXCEPT ![w].pc = "finally",
                                             ![w].notified = "No Files"]
             ELSE \E stat_ok \in BOOLEAN :
                    threads' = IF stat_ok
                                 THEN [threads EXCEPT ![w].pc = "loop",
                                                      ![w].media_files = mf]
                                 ELSE [threads EXCEPT ![w].pc = "except"]
    /\ UNCHANGED <<workerFrame, sinkVars, browse_button, start_button,
                   cancel_button, processing_thread>>

\* process_folder had its loop head not read the flag: the loop goes on to
\* the next file whatever cancel_processing has set
WorkerLoopTopIgnoresCancel(w) ==
    /\ threads[w].pc = "loop"
    /\ threads' =
         IF threads[w].i = Len(threads[w].media_files)
           THEN [threads EXCEPT ![w].pc = "save"]
         ELSE [threads EXCEPT ![w].pc = "extract"]
    /\ UNCHANGED <<workerFrame, sinkVars, browse_button, start_button,
                   cancel_button, processing_thread>>

\* lines 401-406: the head of the for loop and the only read of the flag
WorkerLoopTop(w) ==
    /\ threads[w].pc = "loop"
    /\ threads' =
         IF threads[w].i = Len(threads[w].media_files)
           THEN [threads EXCEPT ![w].pc = "save"]
         ELSE IF cancel_requested
           THEN [threads EXCEPT ![w].pc = "save", ![w].broke = TRUE]
         ELSE [threads EXCEPT ![w].pc = "extract"]
    /\ UNCHANGED <<workerFrame, sinkVars, browse_button, start_button,
                   cancel_button, processing_thread>>

\* process_folder had it read the flag while a file is being processed:
\* the record of that file is appended as far as it was built
WorkerExtractCancelMidFile(w) ==
    /\ threads[w].pc = "extract"
    /\ extract_attempted' = TRUE
    /\ \E outcome \in Outcomes, has \in HasChoices :
         LET file == threads[w].media_files[threads[w].i + 1]
         IN  threads' =
               IF cancel_requested
                 THEN [threads EXCEPT
                         ![w].metadata_list =
                             Append(@, DictUpdate(FileStat(file),
                                          [k \in AlwaysFields |-> "value"])),
                         ![w].i = @ + 1,
                         ![w].broke = TRUE,
                         ![w].pc = "save"]
               ELSE IF outcome = "stat_fail"
                 THEN [threads EXCEPT ![w].pc = "except"]
                 ELSE [threads EXCEPT
                         ![w].metadata_list =
                             Append(@, GetMediaMetadata(file, outcome, has)),
                         ![w].i = @ + 1,
                         ![w].pc = "loop"]
    /\ UNCHANGED <<workerFrame, save_called, report_written, browse_button,
                   start_button, cancel_button, processing_thread>>

\* lines 407-408: get_media_metadata and the append
WorkerExtract(w) ==
    /\ threads[w].pc = "extract"
    /\ extract_attempted' = TRUE
    /\ \E outcome \in Outcomes, has \in HasChoices :
         LET file == threads[w].media_files[threads[w].i + 1]
         IN  threads' =
               IF outcome = "stat_fail"
                 THEN [threads EXCEPT ![w].pc = "except"]
                 ELSE [threads EXCEPT
                         ![w].metadata_list =
                             Append(@, GetMediaMetadata(file, outcome, has)),
                         ![w].i = @ + 1,
                         ![w].pc = "loop"]
    /\ UNCHANGED <<workerFrame, save_called, report_written, browse_button,
                   start_button, cancel_button, processing_thread>>

\* lines 413-416: the report is written and completion is announced, or
\* save_to_excel raises
WorkerSave(w) ==
    /\ threads[w].pc = "save"
    /\ save_called' = TRUE
    /\ \E ok \in BOOLEAN :
         IF ok
           THEN /\ report_written' = TRUE
                /\ threads' = [threads EXCEPT ![w].pc = "finally",
                                              ![w].notified = "Complete"]
           ELSE /\ report_written' = report_written
                /\ threads' = [threads EXCEPT ![w].pc = "except"]
    /\ UNCHANGED <<workerFrame, extract_attempted, browse_button, start_button,
                   cancel_button, processing_thread>>

\* lines 418-419
WorkerExcept(w) ==
    /\ threads[w].pc = "except"
    /\ threads' = [threads EXCEPT ![w].pc = "finally", ![w].notified = "Error"]
    /\ UNCHANGED <<workerFrame, sinkVars, browse_button, start_button,
                   cancel_button, processing_thread>>

\* lines 421-422: the browse and start buttons are enabled again (nothing
\* in the model reads browse_button, so the two statements are one step).
\* The locals of the try block are not read again and are dropped here.
WorkerFinallyStart(w) ==
    /\ threads[w].pc = "finally"
    /\ browse_button' = "normal"
    /\ start_button' = "normal"
    /\ threads' = [threads EXCEPT ![w] = NoLocals("finally_423")]
    /\ UNCHANGED <<workerFrame, sinkVars, cancel_button, processing_thread>>

\* line 423
WorkerFinallyCancel(w) ==
    /\ threads[w].pc = "finally_423"
    /\ cancel_button' = "disabled"
    /\ threads' = [threads EXCEPT ![w].pc = "finally_424"]
    /\ UNCHANGED <<workerFrame, sinkVars, browse_button, start_button,
                   processing_thread>>

\* line 424, after which the thread ends
WorkerFinallyThread(w) ==
    /\ threads[w].pc = "finally_424"
    /\ processing_thread' = 0
    /\ threads' = [threads EXCEPT ![w] = NoLocals("dead")]
    /\ UNCHANGED <<workerFrame, sinkVars, browse_button, start_button,
                   cancel_button>>

\* one step of process_folder on worker thread w
ProcessFolder(w) ==
    \/ WorkerDiscover(w)
    \/ WorkerLoopTop(w)
    \/ WorkerExtract(w)
    \/ WorkerSave(w)
    \/ WorkerExcept(w)
    \/ WorkerFinallyStart(w)
    \/ WorkerFinallyCancel(w)
    \/ WorkerFinallyThread(w)

(***************************************************************************)
(* convert.py: the JSON list of records is grouped by parent folder and    *)
(* written as one worksheet per folder.                                    *)
(***************************************************************************)
\* the longest sheet title create_sheet asks for
SheetTitleMax == 31

\* ord() of the characters of the model's file names
Ord(c) ==
    CASE c = "Y" -> 89
      [] c = "x" -> 120
      [] c = "y" -> 121

\* Python's a <= b on strings: code points, left to right, a prefix first
RECURSIVE StrLeq(_, _)
StrLeq(a, b) ==
    IF a = <<>> THEN TRUE
    ELSE IF b = <<>> THEN FALSE
    ELSE IF Ord(Head(a)) # Ord(Head(b)) THEN Ord(Head(a)) < Ord(Head(b))
    ELSE StrLeq(Tail(a), Tail(b))

\* str.rfind('/') as a 1-based position, 0 when there is no slash
RFindSlash(s) ==
    LET at == {i \in 1..Len(s) : s[i] = "/"}
    IN  IF at = {} THEN 0 ELSE CHOOSE i \in at : \A j \in at : j <= i

\* str(Path(p).parent) for a path without doubled or trailing slashes
ParentFolder(p) ==
    LET i == RFindSlash(p)
    IN  IF i = 0 THEN <<".">>
        ELSE IF i = 1 THEN <<"/">>
        ELSE SubSeq(p, 1, i - 1)

Repeat(c, n) == [i \in 1..n |-> c]

\* the folders of the model's records: two whose titles agree once '/' is
\* replaced, two that agree on the first SheetTitleMax characters, the
\* file system root and the current directory
ConvFolders ==
    { <<"/", "a", "/", "b">>,
      <<"/", "a", "_", "_", "b">>,
      <<"/">> \o Repeat("d", SheetTitleMax - 1) \o <<"1">>,
      <<"/">> \o Repeat("d", SheetTitleMax - 1) \o <<"2">>,
      <<"/">>,
      <<".">> }

ConvFileNames == { <<"x">>, <<"Y">>, <<"x", "y">> }

\* the path of file name in folder
JoinPath(folder, name) ==
    IF folder = <<".">> THEN name
    ELSE IF folder = <<"/">> THEN <<"/">> \o name
    ELSE folder \o <<"/">> \o name

\* a record of the JSON list, as get_media_metadata writes its 'path' and
\* 'filename' (the other keys are copied to the row unread)
ConvRecord(folder, name) == [path |-> JoinPath(folder, name), filename |-> name]

ConvRecords == {ConvRecord(f, n) : f \in ConvFolders, n \in ConvFileNames}

RECURSIVE SeqsUpTo(_, _)
SeqsUpTo(S, n) ==
    IF n = 0 THEN {<<>>}
    ELSE LET r == SeqsUpTo(S, n - 1)
         IN  r \cup {Append(q, x) : q \in r, x \in S}

\* list.sort(key=lambda x: x['filename']): a stable sort
RECURSIVE InsertByFilename(_, _)
InsertByFilename(sorted, x) ==
    IF sorted = <<>> THEN <<x>>
    ELSE IF StrLeq(Last(sorted).filename, x.filename) THEN Append(sorted, x)
    ELSE Append(InsertByFilename(SubSeq(sorted, 1, Len(sorted) - 1), x),
                Last(sorted))

RECURSIVE SortByFilename(_)
SortByFilename(items) ==
    IF items = <<>> THEN <<>>
    ELSE InsertByFilename(SortByFilename(SubSeq(items, 1, Len(items) - 1)),
                          Last(items))

\* the keys of grouped in insertion order: each folder where it first occurs
RECURSIVE GroupKeys(_)
GroupKeys(data) ==
    IF data = <<>> THEN <<>>
    ELSE LET before == GroupKeys(SubSeq(data, 1, Len(data) - 1))
             folder == ParentFolder(Last(data).path)
         IN  IF \E i \in 1..Len(before) : before[i] = folder
               THEN before ELSE Append(before, folder)

\* grouped[folder] before the sort: the items of the folder in data order
ItemsOf(data, folder) ==
    LET InFolder(item) == ParentFolder(item.path) = folder
    IN  SelectSeq(data, InFolder)

\* group_by_folder: the dictionary as its keys in order and its values
group_by_folder(data) ==
    LET keys == GroupKeys(data)
    IN  [ folders |-> keys,
          items   |-> [i \in 1..Len(keys) |->
                          SortByFilename(ItemsOf(data, keys[i]))] ]

\* folder.replace('/', '__')
RECURSIVE ReplaceSlash(_)
ReplaceSlash(s) ==
    IF s = <<>> THEN <<>>
    ELSE (IF Head(s) = "/" THEN <<"_", "_">> ELSE <<Head(s)>>)
         \o ReplaceSlash(Tail(s))

\* s[:n]
Truncate(s, n) == IF Len(s) <= n THEN s ELSE SubSeq(s, 1, n)

\* sheet_title of create_sheet
SheetTitle(folder) == Truncate(ReplaceSlash(folder), SheetTitleMax)

DigitChar(k) ==
    CASE k = 1 -> "1" [] k = 2 -> "2" [] k = 3 -> "3" [] k = 4 -> "4"
      [] k = 5 -> "5" [] k = 6 -> "6" [] k = 7 -> "7" [] k = 8 -> "8"
      [] k = 9 -> "9"

\* wb.create_sheet(title=...) hands the title to openpyxl, which compares
\* it (ignoring case) with the workbook's sheet names and, when it is
\* taken, appends one more than the highest number already appended to it
avoid_duplicate_name(names, value) ==
    IF \E i \in 1..Len(names) : LowerStr(names[i]) = LowerStr(value)
      THEN LET counts == {k \in 1..9 :
                            \E i \in 1..Len(names) :
                               names[i] = value \o <<DigitChar(k)>>}
               highest == IF counts = {} THEN 0
                          ELSE CHOOSE k \in counts : \A j \in counts : j <= k
           IN  value \o <<DigitChar(highest + 1)>>
      ELSE value

\* create_sheet: the worksheet added to workbook wb for one folder
create_sheet(wb, folder, data) ==
    [ title |-> avoid_duplicate_name([i \in 1..Len(wb) |-> wb[i].title],
                                     SheetTitle(folder)),
      rows  |-> data ]

InitConvert ==
    /\ entry = "convert"
    /\ rootKind = "unset"
    /\ tree = {}
    /\ InitParser
    /\ conv \in {[ConvIdle EXCEPT !.pc = "load", !.data = d] :
                    d \in SeqsUpTo(ConvRecords, MaxRecords)}

\* lines 72-81: the data is grouped and the workbook is emptied
ConvGroup ==
    /\ entry = "convert" /\ conv.pc = "load"
    /\ LET g == group_by_folder(conv.data)
       IN  conv' = [conv EXCEPT !.pc = "sheets", !.folders = g.folders,
                                !.grouped = g.items]
    /\ UNCHANGED <<fsVars, sinkVars, cli, guiVars>>

\* lines 84-85: one iteration of the loop over grouped_data.items()
ConvCreateSheet ==
    /\ entry = "convert" /\ conv.pc = "sheets"
    /\ Len(conv.sheets) < Len(conv.folders)
    /\ LET i == Len(conv.sheets) + 1
       IN  conv' = [conv EXCEPT !.sheets =
                       Append(@, create_sheet(conv.sheets, conv.folders[i],
                                              conv.grouped[i]))]
    /\ UNCHANGED <<fsVars, sinkVars, cli, guiVars>>

\* lines 88-89: wb.save, which refuses a workbook without sheets and may
\* fail to write the file
ConvSave ==
    /\ entry = "convert" /\ conv.pc = "sheets"
    /\ Len(conv.sheets) = Len(conv.folders)
    /\ \E ok \in BOOLEAN :
         conv' = [conv EXCEPT !.pc = "done",
                              !.saved = IF ok /\ conv.sheets # <<>>
                                          THEN "written" ELSE "raised"]
    /\ UNCHANGED <<fsVars, sinkVars, cli, guiVars>>

NextConvert ==
    \/ ConvGroup
    \/ ConvCreateSheet
    \/ ConvSave

SpecConvert == InitConvert /\ [][NextConvert]_vars

\* the distinct parent folders of the records of data
ParentFolders(data) == {ParentFolder(data[i].path) : i \in 1..Len(data)}

\* the positions of data whose record equals r
Occurrences(data, r) == {i \in 1..Len(data) : data[i] = r}

\* C9: the workbook that is written has one sheet per distinct
\* parent folder, a record is in the sheet of its parent folder as often as
\* it is in the list and in no other sheet, the rows of a sheet ascend by
\* filename, and the sheet's name is the folder path with '/' replaced and
\* cut to 31 characters.
C9_OneSortedSheetPerFolder ==
    (conv.pc = "done" /\ conv.saved = "written") =>
        /\ Len(conv.sheets) = Cardinality(ParentFolders(conv.data))
        /\ SeqSet(conv.folders) = ParentFolders(conv.data)
        /\ \A i \in 1..Len(conv.sheets) :
              LET rows == conv.sheets[i].rows
              IN  /\ \A r \in ConvRecords :
                        Cardinality(Occurrences(rows, r)) =
                            IF ParentFolder(r.path) = conv.folders[i]
                              THEN Cardinality(Occurrences(conv.data, r))
                              ELSE 0
                  /\ \A j \in 1..(Len(rows) - 1) :
                        StrLeq(rows[j].filename, rows[j + 1].filename)
                  /\ conv.sheets[i].title = SheetTitle(conv.folders[i])

Next ==
    \/ CliStart
    \/ CliExtract
    \/ CliSave
    \/ StartProcessingRejected
    \/ StartProcessing
    \/ StartThread
    \/ CancelProcessing
    \/ \E w \in ThreadIds : entry = "gui" /\ ProcessFolder(w)

Spec == Init /\ [][Next]_vars

\* The worker is an operating system thread started at line 381: once
\* started it is scheduled until process_folder returns, and each call it
\* makes returns or raises.  The UI callbacks depend on the user and get no
\* fairness.
SpecLive ==
    Spec /\ \A w \in ThreadIds : WF_vars(entry = "gui" /\ ProcessFolder(w))

(***************************************************************************)
(* Properties.                                                             *)
(***************************************************************************)
\* the batches in progress: the discovered files and the records so far
Batches ==
    {[files |-> cli.media_files, list |-> cli.metadata_list]}
        \cup {[files |-> threads[w].media_files,
               list  |-> threads[w].metadata_list] : w \in ThreadIds}

\* the keys of a record that are no declared output field
ErrorKeysOf(rec) == DOMAIN rec \ (FileStatFields \cup MediaFields)

\* the regular files below the root that pass the filter
MediaFilesOfTree ==
    {x.path : x \in {y \in tree : y.kind = "file" /\ IsMediaName(Last(y.path))}}

\* C1: the list discovery builds holds exactly the regular files below the
\* root whose lower-cased extension is in MEDIA_EXTENSIONS and whose name
\* does not start with '.', each once, and nothing else.
C1_DiscoveredExactlyMediaFiles ==
    \A b \in Batches :
        b.files # <<>> =>
            /\ SeqSet(b.files) = MediaFilesOfTree
            /\ Len(b.files) = Cardinality(MediaFilesOfTree)

\* C2: every record get_media_metadata returned holds every declared
\* output field, the six file system fields and the eleven media fields,
\* each with a value or "N/A".
C2_EveryRecordHasEveryField ==
    \A b \in Batches : \A j \in 1..Len(b.list) :
        /\ FileStatFields \cup MediaFields \subseteq DOMAIN b.list[j]
        /\ \A k \in MediaFields : b.list[j][k] \in {"value", "N/A"}

\* C3: a file whose processing raises, at whatever step of
\* get_media_metadata, still gets its record with the file system fields,
\* and the batch goes on: the step that processes a file appends one record
\* for it and never ends the batch.
C3_FaultIsolation ==
    [][ /\ \A w \in ThreadIds :
              threads[w].pc = "extract" =>
                  /\ threads'[w].pc = "loop"
                  /\ Len(threads'[w].metadata_list) = threads[w].i + 1
                  /\ FileStatFields \subseteq
                        DOMAIN threads'[w].metadata_list[threads[w].i + 1]
        /\ (cli.pc = "loop" /\ Len(cli.metadata_list) < Len(cli.media_files))
              => cli'.raised = "none"
      ]_vars

\* a record as one call of get_media_metadata leaves it: the file system
\* fields of file, and either all media fields or the error alone
CompleteRecord(rec, file) ==
    /\ DOMAIN rec \in {FileStatFields \cup MediaFields,
                       FileStatFields \cup {ErrorKey}}
    /\ \A k \in FileStatFields : rec[k] = FileStat(file)[k]

\* C4: when the loop of process_folder has stopped on the cancel flag,
\* metadata_list holds complete records only, no more of them than files
\* were discovered, and they are the records of the first k discovered
\* files in discovery order.
C4_CancelStopsAtFileBoundary ==
    \A w \in ThreadIds :
        (threads[w].pc = "save" /\ threads[w].broke) =>
            /\ Len(threads[w].metadata_list) <= Len(threads[w].media_files)
            /\ \A j \in 1..Len(threads[w].metadata_list) :
                  CompleteRecord(threads[w].metadata_list[j],
                                 threads[w].media_files[j])

\* C4 witness: a batch of two files cancelled after the first one
C4_Witness ==
    \E w \in ThreadIds :
        /\ threads[w].pc = "save" /\ threads[w].broke
        /\ Len(threads[w].metadata_list) = 1
        /\ Len(threads[w].media_files) = 2

\* C5: a run whose loop stopped on the cancel flag is never announced as a
\* complete extraction.
C5_CancelledRunNotReportedComplete ==
    \A w \in ThreadIds : threads[w].broke => threads[w].notified # "Complete"

\* C6: when discovery yields no file, nothing is extracted and
\* save_to_excel is not called; process_directory raises ValueError and
\* process_folder returns after its "No Files" notice.
C6_EmptyDiscoveryStopsBatch ==
    DiscoverMediaFiles(rootKind, tree) = <<>> =>
        /\ ~extract_attempted /\ ~save_called /\ ~report_written
        /\ (cli.pc = "done" /\ rootKind # "missing") => cli.raised = "ValueError"
        /\ \A w \in ThreadIds :
              /\ threads[w].pc \in {"unborn", "discover", "finally",
                                    "finally_423", "finally_424", "dead"}
              /\ threads[w].pc = "finally" => threads[w].notified = "No Files"

\* C6 witness: a worker returning from a directory that has entries, none
\* of them a media file
C6_Witness ==
    /\ tree # {}
    /\ \E w \in ThreadIds :
          threads[w].pc = "finally" /\ threads[w].notified = "No Files"

\* C7: a missing root, a root that is no directory and a root without
\* media files are each reported at once, each as a condition of its own,
\* with no extraction and no report; for process_directory and for
\* start_processing / process_folder.
C7_FatalConditionsDistinct ==
    /\ (entry = "cli" /\ cli.pc = "done" /\ rootKind = "missing") =>
          cli.raised = "FileNotFoundError"
    /\ (entry = "cli" /\ cli.pc = "done" /\ rootKind = "file") =>
          cli.raised \notin {"none", "FileNotFoundError", "ValueError"}
    /\ (entry = "cli" /\ cli.pc = "done" /\ rootKind = "dir"
            /\ DiscoverMediaFiles(rootKind, tree) = <<>>) =>
          cli.raised = "ValueError"
    /\ (entry = "gui" /\ rootKind = "missing") =>
          ui_dialog \in {"none", "Error: The selected path does not exist"}
    /\ (entry = "gui" /\ rootKind = "file") =>
          ui_dialog \in {"none", "Error: The selected path is not a directory"}
    /\ (rootKind # "dir" \/ DiscoverMediaFiles(rootKind, tree) = <<>>) =>
          ~extract_attempted /\ ~save_called

C10_SingleWorker ==
    Cardinality({w \in ThreadIds : IsAlive(w)}) <= 1

\* worker w is inside the for loop of process_folder (lines 401-411)
InFileLoop(w) == threads[w].pc \in {"loop", "extract"}

\* C11: once cancel_processing has set cancel_requested during a run, the
\* flag stays set until start_processing resets it and is never reset while
\* a worker is in the file loop; with the flag set the worker starts no
\* further file, so it appends at most the record of the file it is
\* processing (records are appended one at a time, by the extraction step
\* only); and the worker eventually leaves the file loop.
C11_BoundedCancelResponse ==
    /\ [][ /\ (cancel_requested /\ ~cancel_requested') =>
                  /\ ui_pc = "idle" /\ ui_pc' = "spawn"
                  /\ \A w \in ThreadIds : ~InFileLoop(w)
           /\ \A w \in ThreadIds :
                  /\ (cancel_requested /\ threads[w].pc = "loop") =>
                        threads'[w].pc # "extract"
                  /\ (cancel_requested /\ InFileLoop(w)) =>
                        Len(threads'[w].metadata_list) <= threads[w].i + 1
                  /\ threads'[w].metadata_list # threads[w].metadata_list =>
                        \/ /\ threads[w].pc = "extract"
                           /\ Len(threads'[w].metadata_list) = threads[w].i + 1
                           /\ threads'[w].i = threads[w].i + 1
                        \/ threads'[w].metadata_list = <<>>
         ]_vars
    /\ \A w \in ThreadIds :
          (cancel_requested /\ InFileLoop(w)) ~> ~InFileLoop(w)

\* C11 witness: cancel_processing was accepted during a run of two files;
\* the worker completed the first file only and left the loop at the next
\* boundary with the flag still set
C11_Witness ==
    \E w \in ThreadIds :
        /\ cancel_requested /\ cancel_button = "disabled"
        /\ processing_thread = w
        /\ threads[w].broke /\ threads[w].i = 1
        /\ Len(threads[w].media_files) = 2

\* C12: a running batch can always be cancelled: whenever a worker is in
\* the file loop and no cancel has been accepted yet, processing_thread
\* refers to that worker and the cancel button is enabled, so that
\* cancel_processing would set cancel_requested; whatever way the finally
\* block of a finishing worker interleaves with a new start_processing.
C12_RunningBatchCancellable ==
    \A w \in ThreadIds :
        (InFileLoop(w) /\ ~cancel_requested) =>
            /\ processing_thread = w
            /\ cancel_button = "normal"

=============================================================================
